---- MODULE Spec2Model ----
(***************************************************************************)
(* Alert-triggering engine of mlrun: the Alerts and Events crud singletons *)
(* (server/api/crud/alerts.py, server/api/crud/events.py).                 *)
(*                                                                         *)
(* The alert rule store and the alert state rows live in the database      *)
(* layer (get_db()), the notification secrets in the secret manager; the   *)
(* router index is the class attribute Events._cache.                      *)
(*                                                                         *)
(* The model follows server/api/crud.  The older mlrun/api/crud/alerts.py  *)
(* has the same process_event and reset_alert; its store_alert writes the  *)
(* alert row before it removes the old router buckets.  The routing loop   *)
(* passes the alert id taken from the bucket to Alerts.process_event, as   *)
(* mlrun/api/crud/events.py does: the call in server/api/crud/events.py    *)
(* has a (project, name) argument list that Alerts.process_event of        *)
(* server/api/crud/alerts.py does not take.                                *)
(***************************************************************************)
EXTENDS Integers, Sequences, FiniteSets, TLC

\* ------------------------------------------------------------------------
\* Bounds of the model
\* ------------------------------------------------------------------------
MaxId == 2
MaxClock == 2
MaxCount == 2

\* ------------------------------------------------------------------------
\* Value domains
\* ------------------------------------------------------------------------
Projects == {"p1", "p2"}
Names == {"n1", "n2"}
Kinds == {"k1", "k2"}
EntityIds == {"e1", "e2"}
Wildcard == "*"
Ids == 1..MaxId

\* last_updated = None
NoTime == -1

\* full_object = None, and full_object = {"events": [...]}
NoObj == [is_none |-> TRUE, events |-> <<>>]
Obj(evs) == [is_none |-> FALSE, events |-> evs]

\* criteria = None; criteria = {count, period = None}; criteria = {count, period}
NoCriteria == [is_none |-> TRUE, count |-> 0, has_period |-> FALSE, period |-> <<>>]
CountCriteria(n) == [is_none |-> FALSE, count |-> n, has_period |-> FALSE, period |-> <<>>]
PeriodCriteria(n, p) == [is_none |-> FALSE, count |-> n, has_period |-> TRUE, period |-> p]

\* period strings, as sequences of characters
P_1s == <<"1", "s">>
P_2s == <<"2", "s">>
P_bare == <<"1">>
P_0h == <<"0", "h">>
P_xh == <<"x", "h">>
P_1h30m == <<"1", "h", "3", "0", "m">>
P_1d5d == <<"1", "d", "5", "d">>
P_1H == <<" ", "1", "H", " ">>

\* notification lists
Notif(kind, name) == [kind |-> kind, name |-> name]
N_slack == <<Notif("slack", "a")>>
N_two == <<Notif("slack", "a"), Notif("git", "b")>>
N_dup == <<Notif("slack", "a"), Notif("git", "a")>>
N_console == <<Notif("console", "c")>>

\* ------------------------------------------------------------------------
\* Alerts._string2datetime
\* ------------------------------------------------------------------------
Digits == <<"0", "1", "2", "3", "4", "5", "6", "7", "8", "9">>
IsDigit(c) == \E i \in 1..10 : Digits[i] = c
DigitVal(c) == (CHOOSE i \in 1..10 : Digits[i] = c) - 1
IsSpace(c) == c = " "

\* str.lower() on the characters the model uses
LowerChar(c) ==
  CASE c = "D" -> "d"
    [] c = "H" -> "h"
    [] c = "M" -> "m"
    [] c = "S" -> "s"
    [] c = "X" -> "x"
    [] OTHER -> c
Lower(s) == [i \in 1..Len(s) |-> LowerChar(s[i])]

\* str.strip()
RECURSIVE LStrip(_)
LStrip(s) == IF s # <<>> /\ IsSpace(s[1]) THEN LStrip(Tail(s)) ELSE s
RECURSIVE RStrip(_)
RStrip(s) == IF s # <<>> /\ IsSpace(s[Len(s)]) THEN RStrip(SubSeq(s, 1, Len(s) - 1)) ELSE s
Strip(s) == RStrip(LStrip(s))

\* str.endswith(c) for a one-character suffix
EndsWith(s, c) == s # <<>> /\ s[Len(s)] = c

\* str.split(c)[0]: the text before the first occurrence of c
RECURSIVE SplitFirst(_, _)
SplitFirst(s, c) ==
  IF s = <<>> \/ s[1] = c THEN <<>> ELSE <<s[1]>> \o SplitFirst(Tail(s), c)

\* int(text): an optional sign and at least one decimal digit, else ValueError
IntBody(s) == IF s # <<>> /\ s[1] \in {"+", "-"} THEN Tail(s) ELSE s
IntOk(s) == IntBody(s) # <<>> /\ \A i \in 1..Len(IntBody(s)) : IsDigit(IntBody(s)[i])
RECURSIVE DigitsVal(_)
DigitsVal(s) == IF s = <<>> THEN 0 ELSE 10 * DigitsVal(SubSeq(s, 1, Len(s) - 1)) + DigitVal(s[Len(s)])
IntVal(s) == IF s # <<>> /\ s[1] = "-" THEN 0 - DigitsVal(IntBody(s)) ELSE DigitsVal(IntBody(s))

UnitSeconds(u) ==
  CASE u = "d" -> 86400
    [] u = "h" -> 3600
    [] u = "m" -> 60
    [] u = "s" -> 1

TdNone == [tag |-> "None", seconds |-> 0]
TdValueError == [tag |-> "ValueError", seconds |-> 0]
Timedelta(n) == [tag |-> "timedelta", seconds |-> n]

\* the unit branch of _string2datetime: int(date_str.split(u)[0].strip())
UnitBranch(date_str, u) ==
  LET num == Strip(SplitFirst(date_str, u))
  IN IF ~IntOk(num) THEN TdValueError
     ELSE IF IntVal(num) = 0 THEN TdNone
     ELSE Timedelta(IntVal(num) * UnitSeconds(u))

_string2datetime(period) ==
  LET date_str == Lower(Strip(period))
  IN IF EndsWith(date_str, "d") THEN UnitBranch(date_str, "d")
     ELSE IF EndsWith(date_str, "h") THEN UnitBranch(date_str, "h")
     ELSE IF EndsWith(date_str, "m") THEN UnitBranch(date_str, "m")
     ELSE IF EndsWith(date_str, "s") THEN UnitBranch(date_str, "s")
     ELSE TdNone

\* ------------------------------------------------------------------------
\* Alerts._validate_alert
\* ------------------------------------------------------------------------
SupportedKinds == {"git", "slack", "webhook"}

\* "ok", or the exception the validation ends in
_validate_alert(alert) ==
  LET crit == alert.criteria
      td == _string2datetime(crit.period)
  IN IF ~crit.is_none /\ crit.has_period /\ td.tag = "ValueError" THEN "ValueError"
     ELSE IF ~crit.is_none /\ crit.has_period /\ td.tag = "None" THEN "BadRequest"
     ELSE IF \E i \in 1..Len(alert.notifications) :
                alert.notifications[i].kind \notin SupportedKinds THEN "BadRequest"
     ELSE "ok"

\* ------------------------------------------------------------------------
\* Notification secrets (server.api.api.utils)
\* ------------------------------------------------------------------------
\* validate_and_mask_notification_list: notification names are unique
NotificationsUnique(notifications) ==
  \A i, j \in 1..Len(notifications) :
     notifications[i].name = notifications[j].name => i = j

\* the secrets the masking stores for a notification list
MaskedSecrets(notifications, project) ==
  {<<project, notifications[i].name>> : i \in 1..Len(notifications)}

\* Alerts._delete_notifications
_delete_notifications(secs, alert) ==
  secs \ MaskedSecrets(alert.notifications, alert.project)

\* ------------------------------------------------------------------------
\* Events._cache: add_event, remove_event, delete_alert_events
\* ------------------------------------------------------------------------
\* self._cache.setdefault((project, name), []).append(alert_id)
add_event(c, project, name, alert_id) ==
  IF <<project, name>> \in DOMAIN c
  THEN [c EXCEPT ![<<project, name>>] = Append(@, alert_id)]
  ELSE c @@ (<<project, name>> :> <<alert_id>>)

\* remove_event with the del left out
remove_event_keep(c, project, name) == c

\* del self._cache[(project, name)], for a key that is present
remove_event(c, project, name) ==
  [key \in DOMAIN c \ {<<project, name>>} |-> c[key]]

\* for kind in events: add_event(project, kind, alert_id)
RECURSIVE add_events(_, _, _, _)
add_events(c, project, events, alert_id) ==
  IF events = <<>> THEN c
  ELSE add_events(add_event(c, project, events[1], alert_id), project, Tail(events), alert_id)

\* the loop over the old kinds left out
remove_events_none(c, project, events) == [cache |-> c, err |-> "ok"]

\* for kind in events: remove_event(project, kind); stops at the first KeyError
RECURSIVE remove_events(_, _, _)
remove_events(c, project, events) ==
  IF events = <<>> THEN [cache |-> c, err |-> "ok"]
  ELSE IF <<project, events[1]>> \notin DOMAIN c THEN [cache |-> c, err |-> "KeyError"]
  ELSE remove_events(remove_event(c, project, events[1]), project, Tail(events))

\* delete_alert_events with the deletions left out
delete_alert_events_keep(c, project) == c

\* Events.delete_alert_events
delete_alert_events(c, project) ==
  [key \in {k \in DOMAIN c : k[1] # project} |-> c[key]]

\* ------------------------------------------------------------------------
\* Database layer: alert rows and alert state rows
\* ------------------------------------------------------------------------
FreshState == [count |-> 0, active |-> FALSE, last_updated |-> NoTime, full_object |-> NoObj]

\* get_alert(session, project, name): the id of the alert, 0 for None
get_alert(als, project, name) ==
  IF \E a \in DOMAIN als : als[a].project = project /\ als[a].name = name
  THEN CHOOSE a \in DOMAIN als : als[a].project = project /\ als[a].name = name
  ELSE 0

\* store_alert_state writing the values to every state row
store_alert_state_all(sts, alert_id, count, last_updated, active, obj) ==
  [a \in DOMAIN sts |->
      [count |-> count, active |-> active, last_updated |-> last_updated, full_object |-> obj]]

\* store_alert_state(session, alert_id, count, last_updated, active=False, obj=None)
store_alert_state(sts, alert_id, count, last_updated, active, obj) ==
  [sts EXCEPT ![alert_id] =
      [count |-> count, active |-> active, last_updated |-> last_updated, full_object |-> obj]]

\* create_alert(session, alert_data): the row, under the id the database
\* gives it, and its state row
db_create_alert(als, alert_id, alert_data) ==
  als @@ (alert_id :> [alert_data EXCEPT !.id = alert_id])

\* delete_alert(session, alert_id): the row; the state row goes with it
db_delete(rows, alert_id) == [a \in DOMAIN rows \ {alert_id} |-> rows[a]]

\* enrich_alert: the state field of the returned configuration
enrich_alert(sts, alert_id) == IF sts[alert_id].active THEN "active" ELSE "inactive"

\* ------------------------------------------------------------------------
\* Alerts.reset_alert
\* ------------------------------------------------------------------------
\* reset_alert passing the stored active flag on instead of the default False
reset_alert_keeps_active(sts, als, alert_id) ==
  IF alert_id \notin DOMAIN als THEN [states |-> sts, err |-> "NotFound"]
  ELSE [states |-> store_alert_state(sts, alert_id, 0, NoTime, sts[alert_id].active, NoObj),
        err |-> "ok"]

\* reset_alert passing the stored count on instead of 0
reset_alert_keeps_count(sts, als, alert_id) ==
  IF alert_id \notin DOMAIN als THEN [states |-> sts, err |-> "NotFound"]
  ELSE [states |-> store_alert_state(sts, alert_id, sts[alert_id].count, NoTime, FALSE, NoObj),
        err |-> "ok"]

\* reset_alert raising when the state row holds nothing to clear
reset_alert_once(sts, als, alert_id) ==
  IF alert_id \notin DOMAIN als \/ sts[alert_id] = FreshState
  THEN [states |-> sts, err |-> "NotFound"]
  ELSE [states |-> store_alert_state(sts, alert_id, 0, NoTime, FALSE, NoObj), err |-> "ok"]

\* reset_alert without the lookup of the alert: the state row is written
reset_alert_unchecked(sts, als, alert_id) ==
  [states |-> (alert_id :> FreshState) @@ sts, err |-> "ok"]

reset_alert(sts, als, alert_id) ==
  IF alert_id \notin DOMAIN als THEN [states |-> sts, err |-> "NotFound"]
  ELSE [states |-> store_alert_state(sts, alert_id, 0, NoTime, FALSE, NoObj), err |-> "ok"]

\* ------------------------------------------------------------------------
\* Alerts._normalize_events
\* ------------------------------------------------------------------------
\* list.remove(x): drops the first element equal to x
RECURSIVE RemoveFirst(_, _)
RemoveFirst(s, x) ==
  IF s = <<>> THEN <<>>
  ELSE IF s[1] = x THEN Tail(s)
  ELSE <<s[1]>> \o RemoveFirst(Tail(s), x)

\* for event in events: if event_time > now + period: events.remove(event)
\* (the list iterator advances its index while the list shrinks under it)
RECURSIVE NormalizeFrom(_, _, _)
NormalizeFrom(events, i, limit) ==
  IF i > Len(events) THEN events
  ELSE IF events[i] > limit THEN NormalizeFrom(RemoveFirst(events, events[i]), i + 1, limit)
  ELSE NormalizeFrom(events, i + 1, limit)

\* the eviction comparing against now - period: entries older than the period go
_normalize_events_older(events, period, t_now) ==
  LET Recent(t) == t >= t_now - period
  IN SelectSeq(events, Recent)

_normalize_events(events, period, t_now) == NormalizeFrom(events, 1, t_now + period)

\* ------------------------------------------------------------------------
\* Alerts.process_event
\* ------------------------------------------------------------------------
\* the entity filter left out
EntityMatches_any(alert, event) == TRUE

\* alert.entity.id == "*" or alert.entity.id == event_data.entity.id
EntityMatches(alert, event) ==
  alert.entity_id = Wildcard \/ alert.entity_id = event.entity_id

\* the firing comparison written with > for >=
Reached_strict(count, threshold) == count > threshold

\* the firing comparison: state.count >= alert.criteria.count
Reached(count, threshold) == count >= threshold

\* the criteria evaluation for an event that passed the entity filter:
\* the new count, the new full_object and the firing decision.
\* state.count += 1 acts on the object get_alert_state returned; the row
\* changes only through store_alert_state
Evaluate(alert, state, event, t_now) ==
  LET crit == alert.criteria
      count1 == state.count + 1
  IN IF crit.is_none
     THEN [count |-> count1, obj |-> NoObj, send |-> TRUE, err |-> "ok"]
     ELSE IF ~crit.has_period
     THEN [count |-> count1, obj |-> NoObj, send |-> Reached(count1, crit.count), err |-> "ok"]
     ELSE IF state.full_object.is_none
     THEN [count |-> 1, obj |-> Obj(<<event.timestamp>>),
           send |-> Reached(1, crit.count), err |-> "ok"]
     ELSE LET td == _string2datetime(crit.period)
              appended == Append(state.full_object.events, event.timestamp)
          IN IF td.tag = "ValueError"
             THEN [count |-> count1, obj |-> NoObj, send |-> FALSE, err |-> "ValueError"]
             ELSE IF td.tag = "None"
             THEN [count |-> count1, obj |-> NoObj, send |-> FALSE, err |-> "TypeError"]
             ELSE LET evs == _normalize_events(appended, td.seconds, t_now)
                  IN [count |-> Len(evs), obj |-> Obj(evs),
                      send |-> Reached(Len(evs), crit.count), err |-> "ok"]

\* the write with active=True left out of the firing branch
Commit_noactive(sts, als, alert_id, alert, ev, event) ==
  IF ev.send /\ alert.reset_policy = "auto"
  THEN reset_alert(sts, als, alert_id).states
  ELSE store_alert_state(sts, alert_id, ev.count, event.timestamp, FALSE, ev.obj)

\* the write with the reset_policy == "auto" branch left out
Commit_noreset(sts, als, alert_id, alert, ev, event) ==
  store_alert_state(sts, alert_id, ev.count, event.timestamp, ev.send, ev.obj)

\* the state write that ends process_event
Commit(sts, als, alert_id, alert, ev, event) ==
  IF ev.send
  THEN IF alert.reset_policy = "auto"
       THEN reset_alert(sts, als, alert_id).states
       ELSE store_alert_state(sts, alert_id, ev.count, event.timestamp, TRUE, ev.obj)
  ELSE store_alert_state(sts, alert_id, ev.count, event.timestamp, FALSE, ev.obj)

\* process_event calling the pusher in the firing branch and again after it
EvaluateAndCommit_twice(sts, als, alert_id, event, t_now) ==
  LET alert == als[alert_id]
      ev == Evaluate(alert, sts[alert_id], event, t_now)
  IN IF ~EntityMatches(alert, event)
     THEN [states |-> sts, pushed |-> <<>>, err |-> "ok"]
     ELSE IF ev.err # "ok"
     THEN [states |-> sts, pushed |-> <<>>, err |-> ev.err]
     ELSE [states |-> Commit(sts, als, alert_id, alert, ev, event),
           pushed |-> IF ev.send THEN <<alert_id, alert_id>> ELSE <<>>,
           err |-> "ok"]

\* process_event from the read of the alert on, for a state row that is not active
EvaluateAndCommit(sts, als, alert_id, event, t_now) ==
  LET alert == als[alert_id]
      ev == Evaluate(alert, sts[alert_id], event, t_now)
  IN IF ~EntityMatches(alert, event)
     THEN [states |-> sts, pushed |-> <<>>, err |-> "ok"]
     ELSE IF ev.err # "ok"
     THEN [states |-> sts, pushed |-> <<>>, err |-> ev.err]
     ELSE [states |-> Commit(sts, als, alert_id, alert, ev, event),
           pushed |-> IF ev.send THEN <<alert_id>> ELSE <<>>,
           err |-> "ok"]

\* process_event with the early return on state.active left out
Alerts_process_event_noguard(sts, als, alert_id, event, t_now) ==
  IF alert_id \notin DOMAIN sts
  THEN [states |-> sts, pushed |-> <<>>, err |-> "AttributeError"]
  ELSE EvaluateAndCommit(sts, als, alert_id, event, t_now)

\* one call: the state rows after it, the notifications it pushed, its exception
Alerts_process_event(sts, als, alert_id, event, t_now) ==
  IF alert_id \notin DOMAIN sts
  THEN [states |-> sts, pushed |-> <<>>, err |-> "AttributeError"]
  ELSE IF sts[alert_id].active
  THEN [states |-> sts, pushed |-> <<>>, err |-> "ok"]
  ELSE EvaluateAndCommit(sts, als, alert_id, event, t_now)

\* ------------------------------------------------------------------------
\* Events.process_event: the routing loop
\* ------------------------------------------------------------------------
\* for alert_id in self._cache[(project, event_name)]: Alerts().process_event(...)
RECURSIVE RouteFrom(_, _, _, _, _, _, _)
RouteFrom(bucket, i, sts, als, event, t_now, pushed) ==
  IF i > Len(bucket) THEN [states |-> sts, pushed |-> pushed, err |-> "ok"]
  ELSE LET r == Alerts_process_event(sts, als, bucket[i], event, t_now)
       IN IF r.err # "ok"
          THEN [states |-> r.states, pushed |-> pushed \o r.pushed, err |-> r.err]
          ELSE RouteFrom(bucket, i + 1, r.states, als, event, t_now, pushed \o r.pushed)

\* ------------------------------------------------------------------------
\* Events.is_valid_event
\* ------------------------------------------------------------------------
is_valid_event(project, event_data) ==
  IF event_data.entity_project # project THEN FALSE ELSE event_data.is_valid

\* ------------------------------------------------------------------------
\* State
\* ------------------------------------------------------------------------
VARIABLES
  alerts,    \* the alert rows of the database: alert id -> configuration
  states,    \* the alert state rows: alert id -> count, active, last_updated, full_object
  cache,     \* Events._cache: (project, event kind) -> list of alert ids
  secrets,   \* the stored notification secrets: (project, notification name)
  next_id,   \* the id the database gives the next alert row
  now,       \* the clock, datetime.now()
  last,      \* the last call: its arguments, its outcome, the notifications it pushed
  threads    \* the request threads inside Alerts.process_event: position and locals

vars == <<alerts, states, cache, secrets, next_id, now, last, threads>>

EmptyMap == [x \in {} |-> 0]

Call(op, project, id, kind, entity_id, result, routed, pushed) ==
  [op |-> op, project |-> project, id |-> id, kind |-> kind, entity_id |-> entity_id,
   result |-> result, routed |-> routed, pushed |-> pushed, name |-> "",
   old_events |-> <<>>, was_active |-> FALSE]

\* a call of create_alert or store_alert: the name its configuration carries
Named(call, name) == [call EXCEPT !.name = name]

\* a store_alert call that went through: the trigger events and the active
\* flag the alert had before it
Replaced(call, alert, state) ==
  [call EXCEPT !.old_events = alert.events, !.was_active = state.active]

NoCall == Call("none", "", 0, "", "", "ok", <<>>, <<>>)

\* the request body of create_alert and store_alert
Payload(project, name, entity_id, events, criteria, reset_policy, notifications) ==
  [project |-> project, name |-> name, entity_id |-> entity_id, events |-> events,
   criteria |-> criteria, reset_policy |-> reset_policy, notifications |-> notifications,
   created |-> NoTime, id |-> 0]

\* a request thread of the thread pool (run_in_threadpool), outside any call
Threads == {1, 2}
NoEval == [count |-> 0, obj |-> NoObj, send |-> FALSE, err |-> "ok"]
NoPayload == Payload("", "", "", <<>>, NoCriteria, "manual", <<>>)
IdleThread ==
  [pc |-> "idle", alert_id |-> 0, event |-> [entity_id |-> "", timestamp |-> NoTime],
   state |-> FreshState, ev |-> NoEval, pushed |-> 0, alert_data |-> NoPayload]

Init ==
  /\ alerts = EmptyMap
  /\ states = EmptyMap
  /\ cache = EmptyMap
  /\ secrets = {}
  /\ next_id = 1
  /\ now = 0
  /\ last = NoCall
  /\ threads = [t \in Threads |-> IdleThread]

\* ------------------------------------------------------------------------
\* Alerts.create_alert
\* ------------------------------------------------------------------------
\* the lookup of the name left out
already_exists_never(als, project, name) == FALSE

\* get_alert(session, project, name) is not None
already_exists(als, project, name) == get_alert(als, project, name) # 0

CreateAlert(project, name, alert_data) ==
  LET v == _validate_alert(alert_data)
      err == IF already_exists(alerts, project, name) THEN "Conflict"
             ELSE IF v # "ok" THEN v
             ELSE IF ~NotificationsUnique(alert_data.notifications) THEN "BadRequest"
             ELSE "ok"
      new_alert == [alert_data EXCEPT !.created = now]
  IN IF err # "ok"
     THEN /\ last' = Named(Call("create_alert", project, 0, "", "", err, <<>>, <<>>),
                           alert_data.name)
          /\ UNCHANGED <<alerts, states, cache, secrets, next_id, now, threads>>
     ELSE /\ next_id <= MaxId
          /\ secrets' = secrets \cup MaskedSecrets(alert_data.notifications, project)
          /\ alerts' = db_create_alert(alerts, next_id, new_alert)
          /\ states' = states @@ (next_id :> FreshState)
          /\ cache' = add_events(cache, project, new_alert.events, next_id)
          /\ next_id' = next_id + 1
          /\ last' = Named(Call("create_alert", project, next_id, "", "", "ok", <<>>, <<>>),
                           alert_data.name)
          /\ UNCHANGED <<now, threads>>

\* ------------------------------------------------------------------------
\* Alerts.create_alert of mlrun/api/crud/alerts.py, the one the endpoints of
\* mlrun/api/api/endpoints/alerts.py call: the notification list is checked
\* and masked after the row is written and the router index updated
\* ------------------------------------------------------------------------
MlrunApiCreateAlert(project, name, alert_data) ==
  LET v == _validate_alert(alert_data)
      err == IF already_exists(alerts, project, name) THEN "Conflict"
             ELSE IF v # "ok" THEN v
             ELSE "ok"
      new_alert == [alert_data EXCEPT !.created = now]
      masked == NotificationsUnique(alert_data.notifications)
  IN IF err # "ok"
     THEN /\ last' = Named(Call("create_alert", project, 0, "", "", err, <<>>, <<>>),
                           alert_data.name)
          /\ UNCHANGED <<alerts, states, cache, secrets, next_id, now, threads>>
     ELSE /\ next_id <= MaxId
          /\ alerts' = db_create_alert(alerts, next_id, new_alert)
          /\ states' = states @@ (next_id :> FreshState)
          /\ cache' = add_events(cache, project, new_alert.events, next_id)
          /\ next_id' = next_id + 1
          /\ secrets' = IF masked
                        THEN secrets \cup MaskedSecrets(alert_data.notifications, project)
                        ELSE secrets
          /\ last' = Named(Call("create_alert", project, IF masked THEN next_id ELSE 0,
                                "", "", IF masked THEN "ok" ELSE "BadRequest", <<>>, <<>>),
                           alert_data.name)
          /\ UNCHANGED <<now, threads>>

\* ------------------------------------------------------------------------
\* Alerts.store_alert
\* ------------------------------------------------------------------------
\* the name comparison left out
name_changed_never(alert, alert_data) == FALSE

\* alert.name != alert_data.name
name_changed(alert, alert_data) == alert.name # alert_data.name

\* the two assignments left out
keep_identity_not(alert_data, alert) == alert_data

\* alert_data.created = alert.created; alert_data.id = alert.id
keep_identity(alert_data, alert) ==
  [alert_data EXCEPT !.created = alert.created, !.id = alert.id]

StoreAlert(project, alert_id, alert_data) ==
  IF alert_id \notin DOMAIN alerts
  THEN /\ last' = Named(Call("store_alert", project, alert_id, "", "", "NotFound", <<>>, <<>>),
                        alert_data.name)
       /\ UNCHANGED <<alerts, states, cache, secrets, next_id, now, threads>>
  ELSE
  LET alert == alerts[alert_id]
      v == _validate_alert(alert)
      removed == remove_events(cache, project, alert.events)
      new_alert == keep_identity(alert_data, alert)
  IN IF name_changed(alert, alert_data) \/ v # "ok"
     THEN /\ last' = Named(Call("store_alert", project, alert_id, "", "",
                          IF name_changed(alert, alert_data) THEN "BadRequest" ELSE v,
                          <<>>, <<>>), alert_data.name)
          /\ UNCHANGED <<alerts, states, cache, secrets, next_id, now, threads>>
     ELSE IF removed.err # "ok"
     THEN /\ cache' = removed.cache
          /\ last' = Named(Call("store_alert", project, alert_id, "", "", removed.err, <<>>, <<>>),
                           alert_data.name)
          /\ UNCHANGED <<alerts, states, secrets, next_id, now, threads>>
     ELSE IF ~NotificationsUnique(alert_data.notifications)
     THEN /\ cache' = removed.cache
          /\ secrets' = _delete_notifications(secrets, alert)
          /\ last' = Named(Call("store_alert", project, alert_id, "", "", "BadRequest", <<>>, <<>>),
                           alert_data.name)
          /\ UNCHANGED <<alerts, states, next_id, now, threads>>
     ELSE /\ secrets' = _delete_notifications(secrets, alert)
                          \cup MaskedSecrets(alert_data.notifications, project)
          /\ alerts' = [alerts EXCEPT ![alert_id] = new_alert]
          /\ cache' = add_events(removed.cache, project, new_alert.events, alert_id)
          /\ states' = reset_alert(states, alerts', alert_id).states
          /\ last' = Replaced(Named(Call("store_alert", project, alert_id, "", "", "ok",
                                           <<>>, <<>>), alert_data.name),
                               alert, states[alert_id])
          /\ UNCHANGED <<next_id, now, threads>>

\* ------------------------------------------------------------------------
\* Alerts.delete_alert
\* ------------------------------------------------------------------------
\* if alert is None: raise MLRunNotFoundError, as store_alert and reset_alert do
delete_missing_raises == "NotFound"

\* if alert is None: return
delete_missing == "ok"

DeleteAlert(project, alert_id) ==
  IF alert_id \notin DOMAIN alerts
  THEN /\ last' = Call("delete_alert", project, alert_id, "", "", delete_missing, <<>>, <<>>)
       /\ UNCHANGED <<alerts, states, cache, secrets, next_id, now, threads>>
  ELSE
  LET removed == remove_events(cache, project, alerts[alert_id].events)
  IN IF removed.err # "ok"
     THEN /\ cache' = removed.cache
          /\ last' = Call("delete_alert", project, alert_id, "", "", removed.err, <<>>, <<>>)
          /\ UNCHANGED <<alerts, states, secrets, next_id, now, threads>>
     ELSE /\ cache' = removed.cache
          /\ alerts' = db_delete(alerts, alert_id)
          /\ states' = db_delete(states, alert_id)
          /\ last' = Call("delete_alert", project, alert_id, "", "", "ok", <<>>, <<>>)
          /\ UNCHANGED <<secrets, next_id, now, threads>>

\* ------------------------------------------------------------------------
\* Alerts.reset_alert, called through the reset endpoint
\* ------------------------------------------------------------------------
ResetAlert(project, alert_id) ==
  LET r == reset_alert(states, alerts, alert_id)
  IN /\ states' = r.states
     /\ last' = Call("reset_alert", project, alert_id, "", "", r.err, <<>>, <<>>)
     /\ UNCHANGED <<alerts, cache, secrets, next_id, now, threads>>

\* ------------------------------------------------------------------------
\* Events.process_event
\* ------------------------------------------------------------------------
\* the lookup of the bucket without the except clause
except_KeyError_raise == "KeyError"

\* except KeyError: logger.warn(...); return
except_KeyError == "unknown"

ProcessEvent(project, event_name, event_data, validate_event) ==
  LET event == [entity_id |-> event_data.entity_id, timestamp |-> now]
      known == <<project, event_name>> \in DOMAIN cache
      bucket == IF known THEN cache[<<project, event_name>>] ELSE <<>>
      r == RouteFrom(bucket, 1, states, alerts, event, now, <<>>)
  IN IF validate_event /\ ~is_valid_event(project, event_data)
     THEN /\ last' = Call("process_event", project, 0, event_name, event_data.entity_id,
                          "BadRequest", <<>>, <<>>)
          /\ UNCHANGED <<alerts, states, cache, secrets, next_id, now, threads>>
     ELSE IF ~known
     THEN /\ last' = Call("process_event", project, 0, event_name, event_data.entity_id,
                          except_KeyError, <<>>, <<>>)
          /\ UNCHANGED <<alerts, states, cache, secrets, next_id, now, threads>>
     ELSE /\ states' = r.states
          /\ last' = Call("process_event", project, 0, event_name, event_data.entity_id,
                          IF r.err = "KeyError" THEN except_KeyError ELSE r.err,
                          bucket, r.pushed)
          /\ UNCHANGED <<alerts, cache, secrets, next_id, now, threads>>

\* ------------------------------------------------------------------------
\* Events.delete_alert_events, called when a project is deleted
\* ------------------------------------------------------------------------
DeleteAlertEvents(project) ==
  /\ cache' = delete_alert_events(cache, project)
  /\ last' = Call("delete_alert_events", project, 0, "", "", "ok", <<>>, <<>>)
  /\ UNCHANGED <<alerts, states, secrets, next_id, now, threads>>

\* ------------------------------------------------------------------------
\* A project is deleted with its alerts (delete_project(project, "cascade")):
\* the database drops the alert rows and state rows of the project, and
\* Events.delete_alert_events drops its buckets
\* ------------------------------------------------------------------------
DeleteProject(project) ==
  LET kept == {a \in DOMAIN alerts : alerts[a].project # project}
  IN /\ alerts' = [a \in kept |-> alerts[a]]
     /\ states' = [a \in kept |-> states[a]]
     /\ cache' = delete_alert_events(cache, project)
     /\ last' = Call("delete_project", project, 0, "", "", "ok", <<>>, <<>>)
     /\ UNCHANGED <<secrets, next_id, now, threads>>

\* ------------------------------------------------------------------------
\* The process restarts: the class attribute _cache starts as {}
\* ------------------------------------------------------------------------
Restart ==
  /\ cache' = EmptyMap
  /\ last' = Call("restart", "", 0, "", "", "ok", <<>>, <<>>)
  /\ UNCHANGED <<alerts, states, secrets, next_id, now, threads>>

\* ------------------------------------------------------------------------
\* Time passes
\* ------------------------------------------------------------------------
Tick ==
  /\ now < MaxClock
  /\ now' = now + 1
  /\ last' = Call("tick", "", 0, "", "", "ok", <<>>, <<>>)
  /\ UNCHANGED <<alerts, states, cache, secrets, next_id, threads>>

\* ------------------------------------------------------------------------
\* Specification of the router: alerts of two names sharing event kinds
\* ------------------------------------------------------------------------
RouterProjects == {"p1"}
RouterEvents == {<<"k1">>, <<"k2">>, <<"k1", "k2">>, <<"k1", "k1">>}
RouterNotifications == {N_slack, N_dup}
RouterPayloads(project, name) ==
  {Payload(project, name, Wildcard, evs, NoCriteria, "manual", nt) :
     evs \in RouterEvents, nt \in RouterNotifications}
RouterEventData ==
  {[entity_project |-> "p1", entity_id |-> "e1", is_valid |-> TRUE],
   [entity_project |-> "p2", entity_id |-> "e1", is_valid |-> TRUE],
   [entity_project |-> "p1", entity_id |-> "e1", is_valid |-> FALSE]}

Next ==
  \/ \E p \in RouterProjects, n \in Names : \E d \in RouterPayloads(p, n) : CreateAlert(p, n, d)
  \/ \E p \in RouterProjects, a \in Ids, n \in Names :
       \E d \in RouterPayloads(p, n) : StoreAlert(p, a, d)
  \/ \E p \in RouterProjects, a \in Ids : DeleteAlert(p, a)
  \/ \E p \in RouterProjects, a \in Ids : ResetAlert(p, a)
  \/ \E p \in RouterProjects, k \in Kinds, e \in RouterEventData, ve \in BOOLEAN :
       ProcessEvent(p, k, e, ve)
  \/ \E p \in RouterProjects : DeleteAlertEvents(p)
  \/ Restart

Spec == Init /\ [][Next]_vars

TypeOK ==
  /\ DOMAIN alerts \subseteq Ids
  /\ DOMAIN states = DOMAIN alerts
  /\ \A key \in DOMAIN cache : cache[key] # <<>>
  /\ next_id \in 1..(MaxId + 1)
  /\ now \in 0..MaxClock

\* ------------------------------------------------------------------------
\* Specification of the evaluator: one alert, every criteria shape, the clock
\* ------------------------------------------------------------------------
EvalCriteria ==
  {NoCriteria} \cup {CountCriteria(n) : n \in 1..MaxCount}
               \cup {PeriodCriteria(n, P_1s) : n \in 1..MaxCount}
EvalPayloads(project, name) ==
  {Payload(project, name, eid, <<"k1">>, crit, pol, N_slack) :
     eid \in {Wildcard, "e1"}, crit \in EvalCriteria, pol \in {"auto", "manual"}}
EvalEventData ==
  {[entity_project |-> "p1", entity_id |-> e, is_valid |-> TRUE] : e \in EntityIds}

NextEval ==
  \/ \E d \in EvalPayloads("p1", "n1") : CreateAlert("p1", "n1", d)
  \/ \E a \in Ids : \E d \in EvalPayloads("p1", "n1") : StoreAlert("p1", a, d)
  \/ \E a \in Ids : ResetAlert("p1", a)
  \/ \E e \in EvalEventData : ProcessEvent("p1", "k1", e, FALSE)
  \/ Tick

SpecEval == Init /\ [][NextEval]_vars

\* ------------------------------------------------------------------------
\* Alerts.process_event as the request threads run it: the read of the state
\* row, the evaluation and the write of the state row are separate steps
\* ------------------------------------------------------------------------
\* Events.process_event stamps the event and calls Alerts.process_event
ThreadStart(t, project, event_name, event_data) ==
  /\ threads[t].pc = "idle"
  /\ <<project, event_name>> \in DOMAIN cache
  /\ threads' = [threads EXCEPT ![t] =
        [@ EXCEPT !.pc = "read_state",
                  !.alert_id = cache[<<project, event_name>>][1],
                  !.event = [entity_id |-> event_data.entity_id, timestamp |-> now]]]
  /\ UNCHANGED <<alerts, states, cache, secrets, next_id, now, last>>

\* state = get_alert_state(session, alert_id); if state.active: return
ThreadReadState(t) ==
  /\ threads[t].pc = "read_state"
  /\ threads' = [threads EXCEPT ![t] =
        [@ EXCEPT !.state = states[threads[t].alert_id],
                  !.pc = IF states[threads[t].alert_id].active THEN "done" ELSE "evaluate"]]
  /\ UNCHANGED <<alerts, states, cache, secrets, next_id, now, last>>

\* alert = get_alert_by_id(...); the criteria evaluation; the push
ThreadEvaluate(t) ==
  LET me == threads[t]
      alert == alerts[me.alert_id]
      ev == Evaluate(alert, me.state, me.event, now)
  IN /\ me.pc = "evaluate"
     /\ threads' = [threads EXCEPT ![t] =
           IF ~EntityMatches(alert, me.event) \/ ev.err # "ok"
           THEN [@ EXCEPT !.pc = "done"]
           ELSE [@ EXCEPT !.pc = "write", !.ev = ev,
                          !.pushed = IF ev.send THEN 1 ELSE 0]]
     /\ UNCHANGED <<alerts, states, cache, secrets, next_id, now, last>>

\* reset_alert(...) or store_alert_state(...)
ThreadWrite(t) ==
  LET me == threads[t]
  IN /\ me.pc = "write"
     /\ states' = Commit(states, alerts, me.alert_id, alerts[me.alert_id], me.ev, me.event)
     /\ threads' = [threads EXCEPT ![t] = [@ EXCEPT !.pc = "done"]]
     /\ UNCHANGED <<alerts, cache, secrets, next_id, now, last>>

NextConc ==
  \/ \E d \in EvalPayloads("p1", "n1") : CreateAlert("p1", "n1", d)
  \/ \E t \in Threads, e \in EvalEventData : ThreadStart(t, "p1", "k1", e)
  \/ \E t \in Threads : ThreadReadState(t)
  \/ \E t \in Threads : ThreadEvaluate(t)
  \/ \E t \in Threads : ThreadWrite(t)

SpecConc == Init /\ [][NextConc]_vars

\* ------------------------------------------------------------------------
\* Specification of the validation: one alert name, every period string,
\* supported and unsupported notification kinds, the clock
\* ------------------------------------------------------------------------
ValidPeriods == {P_1s, P_2s, P_bare, P_0h, P_xh, P_1h30m, P_1d5d, P_1H}
ValidNotifications == {N_slack, N_console}
\* the created and id values a request body carries
ValidCreated == {NoTime, MaxClock}
ValidBodyIds == {0, MaxId}
ValidIdentity == {<<NoTime, 0>>, <<MaxClock, MaxId>>}
ValidPayloads(project, name) ==
  {[Payload(project, name, Wildcard, <<"k1">>, PeriodCriteria(1, per), "manual", nt)
      EXCEPT !.created = ci[1], !.id = ci[2]] :
     per \in ValidPeriods, nt \in ValidNotifications, ci \in ValidIdentity}

NextValid ==
  \/ \E d \in ValidPayloads("p1", "n1") : CreateAlert("p1", "n1", d)
  \/ \E a \in Ids, n \in Names : \E d \in ValidPayloads("p1", n) : StoreAlert("p1", a, d)
  \/ \E a \in Ids : DeleteAlert("p1", a)
  \/ \E e \in EvalEventData : ProcessEvent("p1", "k1", e, FALSE)
  \/ Tick

SpecValid == Init /\ [][NextValid]_vars

\* ------------------------------------------------------------------------
\* Specification of the create_alert of both crud packages: two names,
\* notification lists with and without a repeated name
\* ------------------------------------------------------------------------
ApiPayloads(project, name) ==
  {Payload(project, name, Wildcard, evs, NoCriteria, "manual", nt) :
     evs \in {<<"k1">>, <<"k2">>}, nt \in {N_slack, N_dup}}

NextApi ==
  \/ \E n \in Names : \E d \in ApiPayloads("p1", n) : CreateAlert("p1", n, d)
  \/ \E n \in Names : \E d \in ApiPayloads("p1", n) : MlrunApiCreateAlert("p1", n, d)
  \/ \E a \in Ids : DeleteAlert("p1", a)
  \/ \E k \in Kinds, e \in EvalEventData : ProcessEvent("p1", k, e, FALSE)

SpecApi == Init /\ [][NextApi]_vars

\* ------------------------------------------------------------------------
\* Specification of the projects: two projects with alerts of the same
\* names and kinds, deleted and created again
\* ------------------------------------------------------------------------
ProjPayloads(project, name) ==
  {Payload(project, name, Wildcard, <<k>>, NoCriteria, "manual", N_slack) : k \in Kinds}
ProjEventData(project) == [entity_project |-> project, entity_id |-> "e1", is_valid |-> TRUE]

NextProj ==
  \/ \E p \in Projects, n \in Names : \E d \in ProjPayloads(p, n) : CreateAlert(p, n, d)
  \/ \E p \in Projects, k \in Kinds : ProcessEvent(p, k, ProjEventData(p), FALSE)
  \/ \E p \in Projects : DeleteAlertEvents(p)
  \/ \E p \in Projects : DeleteProject(p)

SpecProj == Init /\ [][NextProj]_vars

\* ------------------------------------------------------------------------
\* Alerts.store_alert as a request thread runs it next to other requests:
\* the removal of the old buckets and the writes that follow it are separate
\* steps, and Events._cache has no lock
\* ------------------------------------------------------------------------
\* the lookup, the name comparison, _validate_alert, the remove_event loop
\* and _delete_notifications
ThreadStoreRemove(t, project, alert_id, alert_data) ==
  /\ threads[t].pc = "idle"
  /\ alert_id \in DOMAIN alerts
  /\ ~name_changed(alerts[alert_id], alert_data)
  /\ _validate_alert(alerts[alert_id]) = "ok"
  /\ LET removed == remove_events(cache, project, alerts[alert_id].events)
     IN /\ removed.err = "ok"
        /\ cache' = removed.cache
  /\ secrets' = _delete_notifications(secrets, alerts[alert_id])
  /\ threads' = [threads EXCEPT ![t] =
        [@ EXCEPT !.pc = "store_removed", !.alert_id = alert_id, !.alert_data = alert_data]]
  /\ UNCHANGED <<alerts, states, next_id, now, last>>

\* validate_and_mask_notification_list, the row write, the add_event loop
\* and reset_alert
ThreadStoreWrite(t) ==
  LET alert_id == threads[t].alert_id
      alert_data == threads[t].alert_data
      alert == alerts[alert_id]
      new_alert == keep_identity(alert_data, alert)
  IN /\ threads[t].pc = "store_removed"
     /\ threads' = [threads EXCEPT ![t] = IdleThread]
     /\ IF ~NotificationsUnique(alert_data.notifications)
        THEN /\ last' = Named(Call("store_alert", alert.project, alert_id, "", "",
                                   "BadRequest", <<>>, <<>>), alert_data.name)
             /\ UNCHANGED <<alerts, states, cache, secrets, next_id, now>>
        ELSE /\ secrets' = secrets \cup MaskedSecrets(alert_data.notifications, alert.project)
             /\ alerts' = [alerts EXCEPT ![alert_id] = new_alert]
             /\ cache' = add_events(cache, alert.project, new_alert.events, alert_id)
             /\ states' = reset_alert(states, alerts', alert_id).states
             /\ last' = Replaced(Named(Call("store_alert", alert.project, alert_id, "", "",
                                            "ok", <<>>, <<>>), alert_data.name),
                                 alert, states[alert_id])
             /\ UNCHANGED <<next_id, now>>

\* the request thread that runs store_alert; events arrive on the others
Writer == 1

StorePayloads(project, name) ==
  {Payload(project, name, Wildcard, evs, NoCriteria, "manual", nt) :
     evs \in {<<"k1">>, <<"k1", "k2">>}, nt \in RouterNotifications}

NextStore ==
  \/ \E n \in Names : \E d \in StorePayloads("p1", n) : CreateAlert("p1", n, d)
  \/ \E a \in Ids, n \in Names : \E d \in StorePayloads("p1", n) :
       ThreadStoreRemove(Writer, "p1", a, d)
  \/ ThreadStoreWrite(Writer)
  \/ \E k \in Kinds, e \in EvalEventData : ProcessEvent("p1", k, e, FALSE)

SpecStore == Init /\ [][NextStore]_vars

\* ------------------------------------------------------------------------
\* Specification of two alerts on two kinds: each request thread takes the
\* events of one kind through Alerts.process_event step by step, and
\* reset_alert is called for an alert no thread is working on
\* ------------------------------------------------------------------------
ThreadKind(t) == IF t = 1 THEN "k1" ELSE "k2"
NameKind(n) == IF n = "n1" THEN "k1" ELSE "k2"
IndepCriteria == {NoCriteria, CountCriteria(MaxCount), PeriodCriteria(MaxCount, P_1s)}
IndepPayloads(project, name) ==
  {Payload(project, name, Wildcard, <<NameKind(name)>>, crit, pol, N_slack) :
     crit \in IndepCriteria, pol \in {"auto", "manual"}}
IndepEventData == [entity_project |-> "p1", entity_id |-> "e1", is_valid |-> TRUE]

\* the call returned: the thread goes back to the pool
ThreadReturn(t) ==
  /\ threads[t].pc = "done"
  /\ threads' = [threads EXCEPT ![t] = IdleThread]
  /\ UNCHANGED <<alerts, states, cache, secrets, next_id, now, last>>

\* no thread is inside process_event for the alert
NotInFlight(alert_id) ==
  \A t \in Threads : threads[t].pc \in {"idle", "done"} \/ threads[t].alert_id # alert_id

NextIndep ==
  \/ \E n \in Names : \E d \in IndepPayloads("p1", n) : CreateAlert("p1", n, d)
  \/ \E t \in Threads : ThreadStart(t, "p1", ThreadKind(t), IndepEventData)
  \/ \E t \in Threads : ThreadReadState(t)
  \/ \E t \in Threads : ThreadEvaluate(t)
  \/ \E t \in Threads : ThreadWrite(t)
  \/ \E t \in Threads : ThreadReturn(t)
  \/ \E a \in Ids : NotInFlight(a) /\ ResetAlert("p1", a)

SpecIndep == Init /\ [][NextIndep]_vars

\* ------------------------------------------------------------------------
\* Specification of the active flag: two alerts on two kinds, every call
\* that touches an alert or its state row
\* ------------------------------------------------------------------------
NextFlag ==
  \/ \E n \in Names : \E d \in IndepPayloads("p1", n) : CreateAlert("p1", n, d)
  \/ \E a \in Ids, n \in Names : \E d \in IndepPayloads("p1", n) : StoreAlert("p1", a, d)
  \/ \E a \in Ids : DeleteAlert("p1", a)
  \/ \E a \in Ids : ResetAlert("p1", a)
  \/ \E k \in Kinds : ProcessEvent("p1", k, IndepEventData, FALSE)

SpecFlag == Init /\ [][NextFlag]_vars

\* ------------------------------------------------------------------------
\* Specification of the routing loop: two alerts in the bucket of one kind,
\* with and without an entity filter, with period strings that parse and
\* period strings that do not
\* ------------------------------------------------------------------------
RouteCriteria ==
  {NoCriteria} \cup {PeriodCriteria(MaxCount, per) : per \in {P_1s, P_xh, P_0h}}
RoutePayloads(project, name) ==
  {Payload(project, name, eid, <<"k1">>, crit, "manual", N_slack) :
     eid \in {Wildcard, "e2"}, crit \in RouteCriteria}

NextRoute ==
  \/ \E n \in Names : \E d \in RoutePayloads("p1", n) : CreateAlert("p1", n, d)
  \/ \E a \in Ids, n \in Names : \E d \in RoutePayloads("p1", n) : StoreAlert("p1", a, d)
  \/ \E a \in Ids : ResetAlert("p1", a)
  \/ ProcessEvent("p1", "k1", IndepEventData, FALSE)

SpecRoute == Init /\ [][NextRoute]_vars

\* ------------------------------------------------------------------------
\* Specification of the window: one alert with criteria.period whose state
\* row holds a window of timestamps, every content up to NormLen entries;
\* datetime.now() is the wall clock, so a stored entry may lie after it
\* ------------------------------------------------------------------------
NormLen == 3
NormTimes == 0..(MaxClock + 2)
NormWindows ==
  UNION {[1..n -> NormTimes] : n \in 1..NormLen}
NormAlert ==
  [Payload("p1", "n1", Wildcard, <<"k1">>, PeriodCriteria(NormLen + 2, P_1s), "manual", N_slack)
     EXCEPT !.id = 1, !.created = 0]

InitNorm ==
  /\ alerts = (1 :> NormAlert)
  /\ \E w \in NormWindows :
       states = (1 :> [count |-> Len(w), active |-> FALSE,
                       last_updated |-> w[Len(w)], full_object |-> Obj(w)])
  /\ cache = (<<"p1", "k1">> :> <<1>>)
  /\ secrets = MaskedSecrets(N_slack, "p1")
  /\ next_id = 2
  /\ now \in 0..MaxClock
  /\ last = NoCall
  /\ threads = [t \in Threads |-> IdleThread]

NextNorm ==
  \/ ProcessEvent("p1", "k1", IndepEventData, FALSE)
  \/ Tick

SpecNorm == InitNorm /\ [][NextNorm]_vars

\* ------------------------------------------------------------------------
\* Specification of the project argument: alerts of two projects, and
\* store_alert and delete_alert called with either project for any alert id
\* ------------------------------------------------------------------------
NextCross ==
  \/ \E p \in Projects, n \in Names : \E d \in ProjPayloads(p, n) : CreateAlert(p, n, d)
  \/ \E p \in Projects, a \in Ids, n \in Names : \E d \in ProjPayloads(p, n) :
       StoreAlert(p, a, d)
  \/ \E p \in Projects, a \in Ids : DeleteAlert(p, a)
  \/ \E p \in Projects, k \in Kinds : ProcessEvent(p, k, ProjEventData(p), FALSE)

SpecCross == Init /\ [][NextCross]_vars

\* ------------------------------------------------------------------------
\* Specification of the calls that go through: create_alert, store_alert and
\* delete_alert calls that return without an exception, and nothing else
\* ------------------------------------------------------------------------
NextOk ==
  \/ \E n \in Names : \E d \in RouterPayloads("p1", n) :
       CreateAlert("p1", n, d) /\ last'.result = "ok"
  \/ \E a \in Ids, n \in Names : \E d \in RouterPayloads("p1", n) :
       StoreAlert("p1", a, d) /\ last'.result = "ok"
  \/ \E a \in Ids : DeleteAlert("p1", a) /\ last'.result = "ok"

SpecOk == Init /\ [][NextOk]_vars

\* ------------------------------------------------------------------------
\* Properties
\* ------------------------------------------------------------------------
InSeq(x, seq) == \E i \in 1..Len(seq) : seq[i] = x

\* the step is a call of Events.process_event that returned normally and
\* gave the event to alert a, once, and the event passes a's entity filter
Evaluated(a) ==
  /\ last'.op = "process_event"
  /\ last'.result = "ok"
  /\ last'.routed = <<a>>
  /\ a \in DOMAIN alerts
  /\ EntityMatches(alerts[a], [entity_id |-> last'.entity_id])

IsCountAlert(a) ==
  /\ a \in DOMAIN alerts
  /\ ~alerts[a].criteria.is_none
  /\ ~alerts[a].criteria.has_period

IsPeriodAlert(a) ==
  /\ a \in DOMAIN alerts
  /\ ~alerts[a].criteria.is_none
  /\ alerts[a].criteria.has_period

\* C1: an inactive manual-reset alert with criteria.count = N and no period
\* holds count < N; every matching event raises count by one, and the alert
\* becomes active, with a notification, on the event that makes count = N and
\* on no earlier one
C1_FiresOnNthEvent ==
  /\ [](\A a \in Ids :
          (IsCountAlert(a) /\ alerts[a].reset_policy = "manual" /\ ~states[a].active)
            => states[a].count < alerts[a].criteria.count)
  /\ [][\A a \in Ids :
          (Evaluated(a) /\ IsCountAlert(a) /\ alerts[a].reset_policy = "manual"
             /\ ~states[a].active)
            => /\ states'[a].count = states[a].count + 1
               /\ states'[a].active = (states[a].count + 1 = alerts[a].criteria.count)
               /\ (last'.pushed = <<a>>) = states'[a].active]_vars

\* C1 witness: a manual alert with criteria.count = 2 fired on its second event
C1_Witness ==
  \E a \in DOMAIN alerts :
    /\ IsCountAlert(a) /\ alerts[a].reset_policy = "manual"
    /\ alerts[a].criteria.count = 2
    /\ last.op = "process_event" /\ last.routed = <<a>> /\ last.pushed = <<a>>
    /\ states[a].active /\ states[a].count = 2

\* C2: for an inactive alert with no criteria, an event that passes the entity
\* filter pushes a notification, whatever the stored count; with manual reset
\* policy the alert is active afterwards
C2_NoCriteriaFiresFirst ==
  [][\A a \in Ids :
       (Evaluated(a) /\ alerts[a].criteria.is_none /\ ~states[a].active)
         => /\ last'.pushed = <<a>>
            /\ (alerts[a].reset_policy = "manual" => states'[a].active)]_vars

\* C2 witness: a manual alert with no criteria went active on an event
C2_Witness ==
  \E a \in DOMAIN alerts :
    /\ alerts[a].criteria.is_none /\ alerts[a].reset_policy = "manual"
    /\ last.op = "process_event" /\ last.routed = <<a>> /\ last.pushed = <<a>>
    /\ states[a].active

\* C3: while an alert is active, an event changes none of its count, active,
\* last_updated and full_object and pushes no notification for it
C3_ActiveIgnoresEvents ==
  [][\A a \in Ids :
       (last'.op = "process_event" /\ a \in DOMAIN states /\ states[a].active)
         => /\ states'[a] = states[a]
            /\ ~InSeq(a, last'.pushed)]_vars

\* C3 witness: a matching event was given to an active alert and pushed nothing
C3_Witness ==
  \E a \in DOMAIN alerts :
    /\ last.op = "process_event" /\ last.result = "ok" /\ last.routed = <<a>>
    /\ EntityMatches(alerts[a], [entity_id |-> last.entity_id])
    /\ states[a].active /\ last.pushed = <<>>

\* C4: reset_alert on an existing alert succeeds and leaves count = 0,
\* active = false, last_updated = null and no full_object, whatever the state
C4_ResetClearsState ==
  [][(last'.op = "reset_alert" /\ last'.id \in DOMAIN alerts)
       => /\ last'.result = "ok"
          /\ states'[last'.id] = FreshState]_vars

\* C4 witness: reset_alert has just run on an existing alert and succeeded
C4_Witness ==
  /\ last.op = "reset_alert" /\ last.result = "ok"
  /\ last.id \in DOMAIN alerts
  /\ states[last.id] = FreshState

SerialOutcome(a, e1, e2) ==
  LET created == [states EXCEPT ![a] = FreshState]
      r1 == Alerts_process_event(created, alerts, a, e1, now)
      r2 == Alerts_process_event(r1.states, alerts, a, e2, now)
  IN [state |-> r2.states[a], pushes |-> Len(r1.pushed) + Len(r2.pushed)]

\* C6: when two concurrent process_event calls for one alert have both
\* returned, the alert's state row and the number of notifications pushed
\* equal those of one of the two sequential orders of the calls
C6_ConcurrentAsSequential ==
  (threads[1].pc = "done" /\ threads[2].pc = "done")
    => LET a == threads[1].alert_id
           e1 == threads[1].event
           e2 == threads[2].event
           got == [state |-> states[a], pushes |-> threads[1].pushed + threads[2].pushed]
       IN got \in {SerialOutcome(a, e1, e2), SerialOutcome(a, e2, e1)}

\* C7: when alerts a and b of one project both subscribe to kind k, deleting
\* or updating a leaves b in the bucket (project, k)
C7_CoSubscriberKept ==
  [][\A a, b \in Ids : \A k \in Kinds :
       (/\ a # b /\ a \in DOMAIN alerts /\ b \in DOMAIN alerts
        /\ alerts[a].project = alerts[b].project
        /\ InSeq(k, alerts[a].events) /\ InSeq(k, alerts[b].events)
        /\ <<alerts[a].project, k>> \in DOMAIN cache
        /\ InSeq(a, cache[<<alerts[a].project, k>>])
        /\ InSeq(b, cache[<<alerts[a].project, k>>])
        /\ last'.op \in {"delete_alert", "store_alert"}
        /\ last'.id = a /\ last'.project = alerts[a].project)
       => /\ <<alerts[a].project, k>> \in DOMAIN cache'
          /\ InSeq(b, cache'[<<alerts[a].project, k>>])]_vars

\* the bucket (project, k) holds alert a and no other alert
SoleSubscriber(a, project, k) ==
  /\ <<project, k>> \in DOMAIN cache
  /\ \A i \in 1..Len(cache[<<project, k>>]) : cache[<<project, k>>][i] = a

\* C8: a successful delete_alert of the only subscriber of (project, k)
\* leaves no bucket (project, k); an event whose (project, k) has no bucket
\* returns normally, reaches no alert, pushes nothing and changes no state row
C8_DeletedSoleSubscriber ==
  [][/\ \A a \in Ids : \A k \in Kinds :
          (/\ a \in DOMAIN alerts /\ InSeq(k, alerts[a].events)
           /\ SoleSubscriber(a, alerts[a].project, k)
           /\ last'.op = "delete_alert" /\ last'.id = a
           /\ last'.project = alerts[a].project /\ last'.result = "ok")
          => /\ a \notin DOMAIN alerts'
             /\ <<alerts[a].project, k>> \notin DOMAIN cache'
     /\ (/\ last'.op = "process_event" /\ last'.result # "BadRequest"
         /\ <<last'.project, last'.kind>> \notin DOMAIN cache)
          => /\ last'.result = "unknown"
             /\ last'.routed = <<>> /\ last'.pushed = <<>>
             /\ states' = states]_vars

\* C8 witness: the one alert ever created was deleted, and a later event of
\* its project was dropped as unknown
C8_Witness ==
  /\ next_id = 2 /\ DOMAIN alerts = {}
  /\ last.op = "process_event" /\ last.result = "unknown"
  /\ <<last.project, last.kind>> \notin DOMAIN cache

\* C9: an alert with criteria.period fires only when criteria.count entries
\* of its window, the new event included, are no older than the period
C9_FiresOnSurvivingEntries ==
  [][\A a \in Ids :
       (Evaluated(a) /\ IsPeriodAlert(a) /\ ~states[a].active /\ last'.pushed = <<a>>)
         => LET window == states[a].full_object.events \o <<now>>
                period == _string2datetime(alerts[a].criteria.period).seconds
            IN Cardinality({i \in 1..Len(window) : window[i] >= now - period})
                 >= alerts[a].criteria.count]_vars

\* C10: a create_alert or store_alert call that ends in Conflict, NotFound or
\* BadRequest leaves the alert rows, the router index, the notification
\* secrets and the state rows as they were
C10_RejectedCallChangesNothing ==
  [][(/\ last'.op \in {"create_alert", "store_alert"}
      /\ last'.result \in {"Conflict", "NotFound", "BadRequest"})
       => UNCHANGED <<alerts, cache, secrets, states>>]_vars

\* a period string that is one non-zero integer followed by one unit of
\* d, h, m, s (surrounding blanks and the case of the unit aside)
WellFormedPeriod(period) ==
  LET date_str == Lower(Strip(period))
      number == SubSeq(date_str, 1, Len(date_str) - 1)
  IN /\ Len(date_str) >= 2
     /\ date_str[Len(date_str)] \in {"d", "h", "m", "s"}
     /\ \A i \in 1..Len(number) : IsDigit(number[i])
     /\ DigitsVal(number) # 0

\* C11: create_alert of a new name with a criteria.period that is not one
\* non-zero integer followed by one unit ends in BadRequest and persists
\* nothing
C11_MalformedPeriodRejected ==
  [][\A d \in ValidPayloads("p1", "n1") :
       (/\ CreateAlert("p1", "n1", d)
        /\ get_alert(alerts, "p1", "n1") = 0
        /\ ~WellFormedPeriod(d.criteria.period))
         => /\ last'.result = "BadRequest"
            /\ UNCHANGED <<alerts, states, cache, secrets>>]_vars

\* C12: store_alert with a configuration whose name differs from the stored
\* alert's name ends in BadRequest and leaves the alert rows, the router
\* index, the notification secrets and the state rows as they were
C12_RenameRejected ==
  [][(/\ last'.op = "store_alert"
      /\ last'.id \in DOMAIN alerts
      /\ last'.name # alerts[last'.id].name)
       => /\ last'.result = "BadRequest"
          /\ UNCHANGED <<alerts, cache, secrets, states>>]_vars

\* C12 witness: store_alert with another name on an active alert ended in
\* BadRequest, with the alert still in each of its buckets and its secrets
\* still stored
C12_Witness ==
  /\ last.op = "store_alert" /\ last.result = "BadRequest"
  /\ last.id \in DOMAIN alerts
  /\ last.name # alerts[last.id].name
  /\ states[last.id].active
  /\ \A i \in 1..Len(alerts[last.id].events) :
       /\ <<last.project, alerts[last.id].events[i]>> \in DOMAIN cache
       /\ InSeq(last.id, cache[<<last.project, alerts[last.id].events[i]>>])
  /\ MaskedSecrets(alerts[last.id].notifications, last.project) \subseteq secrets

\* C13: create_alert sets the name, the id and the created timestamp of an
\* alert; every successful store_alert leaves the three as they were,
\* whatever id and created its configuration carries
C13_IdentityKept ==
  /\ [](\A a \in DOMAIN alerts : alerts[a].id = a /\ alerts[a].created \in 0..now)
  /\ [][(last'.op = "create_alert" /\ last'.result = "ok")
          => /\ alerts'[last'.id].name = last'.name
             /\ alerts'[last'.id].id = last'.id
             /\ alerts'[last'.id].created = now]_vars
  /\ [][(last'.op = "store_alert" /\ last'.result = "ok")
          => /\ alerts'[last'.id].name = alerts[last'.id].name
             /\ alerts'[last'.id].id = alerts[last'.id].id
             /\ alerts'[last'.id].created = alerts[last'.id].created]_vars

\* C13 witness: a successful store_alert, later than the create_alert, on an
\* alert whose id and created timestamp no request body carries
C13_Witness ==
  /\ last.op = "store_alert" /\ last.result = "ok"
  /\ last.id \in DOMAIN alerts
  /\ alerts[last.id].id \notin ValidBodyIds
  /\ alerts[last.id].created \notin ValidCreated
  /\ alerts[last.id].created < now

\* the alerts of the store that have this project and name
AlertsNamed(project, name) ==
  {a \in DOMAIN alerts : alerts[a].project = project /\ alerts[a].name = name}

\* C14: create_alert for a (project, name) that the store holds ends in
\* Conflict and changes neither the alert rows nor any bucket of the router
\* index; the store never holds two alerts of one project and name
C14_DuplicateCreateConflicts ==
  /\ [](\A p \in Projects : \A n \in Names : Cardinality(AlertsNamed(p, n)) <= 1)
  /\ [][(last'.op = "create_alert" /\ AlertsNamed(last'.project, last'.name) # {})
          => /\ last'.result = "Conflict"
             /\ alerts' = alerts
             /\ cache' = cache]_vars

\* C14 witness: create_alert of a stored name ended in Conflict, and the
\* store holds one alert of that name, subscribed in the router index
C14_Witness ==
  /\ last.op = "create_alert" /\ last.result = "Conflict"
  /\ Cardinality(AlertsNamed(last.project, last.name)) = 1
  /\ \E a \in AlertsNamed(last.project, last.name) :
       \E key \in DOMAIN cache : InSeq(a, cache[key])

\* C15: delete_alert for an id that the store does not hold returns without
\* an error and changes neither the alert rows, the state rows nor any bucket
\* of the router index
C15_DeleteMissingIsNoOp ==
  [][(last'.op = "delete_alert" /\ last'.id \notin DOMAIN alerts)
       => /\ last'.result = "ok"
          /\ UNCHANGED <<alerts, states, cache, secrets>>]_vars

\* C15 witness: delete_alert of an id that was never given to an alert
\* returned, with another alert in the store and in the router index
C15_Witness ==
  /\ last.op = "delete_alert" /\ last.result = "ok"
  /\ last.id >= next_id
  /\ DOMAIN alerts # {}
  /\ DOMAIN cache # {}

\* C16: delete_alert for an alert of the store succeeds and removes the
\* alert, whatever the router index holds
C16_DeleteExistingSucceeds ==
  [][(last'.op = "delete_alert" /\ last'.id \in DOMAIN alerts)
       => /\ last'.result = "ok"
          /\ last'.id \notin DOMAIN alerts']_vars

\* C17: reset_alert called twice in a row on an alert of the store succeeds
\* both times, and the state rows after the second call are those after the
\* first
C17_ResetIdempotent ==
  \A a \in DOMAIN alerts :
    LET first == reset_alert(states, alerts, a)
        second == reset_alert(first.states, alerts, a)
    IN /\ first.err = "ok"
       /\ second.err = "ok"
       /\ second.states = first.states

\* C17 witness: reset_alert has just succeeded on an alert with a period
\* criteria after the clock moved, and a second reset_alert on it succeeds and
\* gives the state rows that are there
C17_Witness ==
  /\ last.op = "reset_alert" /\ last.result = "ok"
  /\ IsPeriodAlert(last.id)
  /\ now > alerts[last.id].created
  /\ reset_alert(states, alerts, last.id) = [states |-> states, err |-> "ok"]

\* C18: reset_alert ends in NotFound exactly when the store holds no alert of
\* the given id, and then no state row is written or changed
C18_ResetNotFound ==
  [][last'.op = "reset_alert"
       => /\ (last'.result = "NotFound") = (last'.id \notin DOMAIN alerts)
          /\ (last'.result = "NotFound" => states' = states)]_vars

\* C18 witness: reset_alert of an id the store does not hold ended in
\* NotFound while an active alert is in the store
C18_Witness ==
  /\ last.op = "reset_alert" /\ last.result = "NotFound"
  /\ last.id \notin DOMAIN alerts
  /\ \E a \in DOMAIN alerts : states[a].active

\* C19: an event whose (project, kind) has no bucket in the router index is
\* dropped: Events.process_event returns without an error, gives the event to
\* no alert, pushes no notification, and leaves the state rows, the alert
\* rows and the router index as they were
C19_UnknownKindDropped ==
  [][(/\ last'.op = "process_event"
      /\ last'.result # "BadRequest"
      /\ <<last'.project, last'.kind>> \notin DOMAIN cache)
       => /\ last'.result = "unknown"
          /\ last'.routed = <<>>
          /\ last'.pushed = <<>>
          /\ UNCHANGED <<states, alerts, cache>>]_vars

\* C19 witness: an event of a kind without a bucket was dropped while an
\* alert of the same project is subscribed to another kind
C19_Witness ==
  /\ last.op = "process_event" /\ last.result = "unknown"
  /\ <<last.project, last.kind>> \notin DOMAIN cache
  /\ \E k \in Kinds : k # last.kind /\ <<last.project, k>> \in DOMAIN cache
  /\ DOMAIN alerts # {}

\* C20: every call of Events.process_event with an event whose entity.project
\* differs from the target project, for a kind that alerts of the target
\* project subscribe to, ends in BadRequest, changes no state row and pushes
\* no notification
C20_ForeignEventRejected ==
  [][\A e \in RouterEventData : \A ve \in BOOLEAN :
       (/\ last'.op = "process_event"
        /\ <<last'.project, last'.kind>> \in DOMAIN cache
        /\ e.entity_project # last'.project
        /\ ProcessEvent(last'.project, last'.kind, e, ve))
         => /\ last'.result = "BadRequest"
            /\ last'.pushed = <<>>
            /\ states' = states]_vars

\* C21: when the entity id of an alert is neither "*" nor the entity id of
\* the event, process_event changes nothing of the alert's state row (count,
\* active, last_updated, full_object) and pushes no notification for it
C21_EntityMismatchIsNoOp ==
  [][\A a \in Ids :
       (/\ last'.op = "process_event"
        /\ InSeq(a, last'.routed)
        /\ a \in DOMAIN alerts /\ a \in DOMAIN states
        /\ alerts[a].entity_id \notin {Wildcard, last'.entity_id})
         => /\ states'[a] = states[a]
            /\ ~InSeq(a, last'.pushed)]_vars

\* C21 witness: an event of entity e2 was given to an inactive alert on
\* entity e1 that had counted an event before; nothing was pushed
C21_Witness ==
  \E a \in DOMAIN alerts :
    /\ last.op = "process_event" /\ last.result = "ok" /\ last.routed = <<a>>
    /\ alerts[a].entity_id = "e1" /\ last.entity_id = "e2"
    /\ states[a].count = 1 /\ ~states[a].active
    /\ last.pushed = <<>>

\* the router index routes events of (project, k) to alert a
RoutedTo(c, project, k, a) ==
  <<project, k>> \in DOMAIN c /\ InSeq(a, c[<<project, k>>])

\* C22: right after a successful store_alert the alert is in the bucket of
\* every kind of its new trigger events and in the bucket of no kind that
\* only its old trigger events held
C22_StoreReroutes ==
  [][(last'.op = "store_alert" /\ last'.result = "ok")
       => \A k \in Kinds :
            /\ InSeq(k, alerts'[last'.id].events)
                 => RoutedTo(cache', last'.project, k, last'.id)
            /\ (InSeq(k, alerts[last'.id].events) /\ ~InSeq(k, alerts'[last'.id].events))
                 => ~RoutedTo(cache', last'.project, k, last'.id)]_vars

\* C22 witness: a successful store_alert moved an alert from kind k1 to kind
\* k2: the alert is in the bucket of k2 and in no bucket of k1
C22_Witness ==
  /\ last.op = "store_alert" /\ last.result = "ok"
  /\ last.old_events = <<"k1">>
  /\ alerts[last.id].events = <<"k2">>
  /\ RoutedTo(cache, last.project, "k2", last.id)
  /\ ~RoutedTo(cache, last.project, "k1", last.id)

\* C23: right after a successful store_alert the alert is inactive with
\* count 0, also when it was active before; right after a successful
\* create_alert the alert is inactive
C23_StoreResetsState ==
  /\ [][(last'.op = "store_alert" /\ last'.result = "ok")
          => /\ enrich_alert(states', last'.id) = "inactive"
             /\ states'[last'.id].count = 0]_vars
  /\ [][(last'.op = "create_alert" /\ last'.result = "ok")
          => /\ last'.id \in DOMAIN states'
             /\ enrich_alert(states', last'.id) = "inactive"]_vars

\* C23 witness: a successful store_alert on an alert that was active left it
\* inactive with count 0
C23_Witness ==
  /\ last.op = "store_alert" /\ last.result = "ok"
  /\ last.was_active
  /\ ~states[last.id].active
  /\ states[last.id].count = 0

\* C24: create_alert of a new name with two notifications of one name ends
\* in BadRequest and leaves the alert rows and the router index as they
\* were, in both crud packages
C24_DuplicateNamesNotPersisted ==
  [][\A n \in Names : \A d \in ApiPayloads("p1", n) :
       (/\ last'.op = "create_alert"
        /\ AlertsNamed("p1", n) = {}
        /\ ~NotificationsUnique(d.notifications)
        /\ (CreateAlert("p1", n, d) \/ MlrunApiCreateAlert("p1", n, d)))
         => /\ last'.result = "BadRequest"
            /\ alerts' = alerts
            /\ cache' = cache]_vars

\* C25: no alert of the store has a notification whose kind is outside
\* git, slack, webhook
C25_StoredKindsWhitelisted ==
  \A a \in DOMAIN alerts :
    \A i \in 1..Len(alerts[a].notifications) :
      alerts[a].notifications[i].kind \in {"git", "slack", "webhook"}

RECURSIVE RunEvents(_, _, _, _)
RunEvents(sts, a, k, pushes) ==
  IF k = 0 THEN [states |-> sts, pushes |-> pushes]
  ELSE LET event == [entity_id |-> IF alerts[a].entity_id = Wildcard THEN "e1"
                                   ELSE alerts[a].entity_id,
                     timestamp |-> now]
           r == Alerts_process_event(sts, alerts, a, event, now)
       IN RunEvents(r.states, a, k - 1, pushes + Len(r.pushed))

MaxEvents == 2 * MaxCount + 1

Pushes(pushed, a) == Cardinality({i \in 1..Len(pushed) : pushed[i] = a})

C29_IndexMatchesStore ==
  \A p \in Projects : \A k \in Kinds : \A a \in Ids :
    RoutedTo(cache, p, k, a)
      <=> (a \in DOMAIN alerts /\ alerts[a].project = p /\ InSeq(k, alerts[a].events))

\* C30: while a store_alert is under way on an alert whose old and new
\* trigger events both hold kind k, an event of (project, k) is not dropped as
\* unknown and is given to the alert
C30_ReaderSeesAlertDuringStore ==
  [][\A t \in Threads : \A a \in Ids :
       (/\ last'.op = "process_event"
        /\ threads[t].pc = "store_removed" /\ threads[t].alert_id = a
        /\ a \in DOMAIN alerts
        /\ last'.project = alerts[a].project
        /\ InSeq(last'.kind, alerts[a].events)
        /\ InSeq(last'.kind, threads[t].alert_data.events))
         => /\ last'.result # "unknown"
            /\ InSeq(a, last'.routed)]_vars

\* C31: a step of process_event for one alert, and a reset_alert of one
\* alert, leave the state row of every other alert as it was; the write that
\* ends a process_event call leaves the state rows the call would leave if it
\* ran alone, whatever the other thread did for the other alert in between;
\* and two calls for two alerts, run one after the other, leave the same
\* state rows in either order
C31_AlertsIndependent ==
  /\ [][\A t \in Threads : \A b \in Ids :
          (/\ threads'[t] # threads[t] /\ threads' # [threads EXCEPT ![t] = IdleThread]
           /\ b \in DOMAIN states /\ b # threads'[t].alert_id)
            => states'[b] = states[b]]_vars
  /\ [][\A b \in Ids :
          (/\ threads' = threads /\ last'.op = "reset_alert"
           /\ b \in DOMAIN states /\ b # last'.id)
            => states'[b] = states[b]]_vars
  /\ [][\A t \in Threads :
          (threads[t].pc = "write" /\ threads'[t].pc = "done")
            => states' = Alerts_process_event(states, alerts, threads[t].alert_id,
                                              threads[t].event, now).states]_vars
  /\ [](\A a, b \in DOMAIN alerts :
          a # b =>
            LET e == [entity_id |-> "e1", timestamp |-> now]
                ab == Alerts_process_event(
                        Alerts_process_event(states, alerts, a, e, now).states,
                        alerts, b, e, now).states
                ba == Alerts_process_event(
                        Alerts_process_event(states, alerts, b, e, now).states,
                        alerts, a, e, now).states
            IN ab = ba)

\* C31 witness: the thread of alert 1 read the state row and holds its write
\* back while the thread of alert 2 went through its whole call and fired
C31_Witness ==
  /\ threads[1].pc = "write" /\ threads[2].pc = "done"
  /\ threads[1].alert_id # threads[2].alert_id
  /\ threads[2].pushed = 1
  /\ states[threads[2].alert_id].active
  /\ ~states[threads[1].alert_id].active

\* C32: the active flag of an alert goes from false to true only in a
\* process_event call that reached the alert, pushed its notification and
\* whose alert has reset_policy "manual"; it goes from true to false only in
\* a reset_alert or store_alert call for that alert; an alert is created
\* inactive
C32_ActiveFlagTransitions ==
  [][/\ \A a \in Ids :
          (a \in DOMAIN states /\ a \in DOMAIN states')
            => /\ (~states[a].active /\ states'[a].active)
                    => /\ last'.op = "process_event"
                       /\ InSeq(a, last'.routed) /\ InSeq(a, last'.pushed)
                       /\ alerts[a].reset_policy = "manual"
               /\ (states[a].active /\ ~states'[a].active)
                    => /\ last'.op \in {"reset_alert", "store_alert"}
                       /\ last'.id = a /\ last'.result = "ok"
     /\ \A a \in Ids :
          (a \notin DOMAIN states /\ a \in DOMAIN states') => ~states'[a].active]_vars

\* C32 witness: an alert was deleted while the other alert was active, and
\* the other alert is still active
C32_Witness ==
  /\ last.op = "delete_alert" /\ last.result = "ok"
  /\ last.id \notin DOMAIN alerts
  /\ \E a \in DOMAIN alerts : states[a].active /\ a # last.id

\* C33: an event whose (project, kind) has a bucket is not reported as
\* unknown, and every alert of the bucket evaluates it: the state row of each
\* alert the bucket lists once, and the notifications pushed for it, are
\* those of its own Alerts.process_event call, whatever the calls for the
\* alerts before it in the bucket ended in
C33_WholeBucketEvaluates ==
  [][(/\ last'.op = "process_event" /\ last'.result # "BadRequest"
      /\ <<last'.project, last'.kind>> \in DOMAIN cache)
       => /\ last'.result # "unknown"
          /\ last'.routed = cache[<<last'.project, last'.kind>>]
          /\ \A b \in Ids :
               LET event == [entity_id |-> last'.entity_id, timestamp |-> now]
                   r == Alerts_process_event(states, alerts, b, event, now)
               IN (Pushes(last'.routed, b) = 1 /\ r.err = "ok")
                    => /\ states'[b] = r.states[b]
                       /\ Pushes(last'.pushed, b) = Len(r.pushed)]_vars

\* C34: a store_alert call for a stored alert whose new configuration
\* _validate_alert rejects with BadRequest (a period without a unit or of
\* zero length, a notification kind outside git, slack and webhook) ends in
\* BadRequest and leaves the alert rows as they were
C34_StoreValidatesNewConfig ==
  [][\A a \in Ids : \A d \in ValidPayloads("p1", "n1") :
       (/\ a \in DOMAIN alerts
        /\ _validate_alert(d) = "BadRequest"
        /\ StoreAlert("p1", a, d))
         => /\ last'.result = "BadRequest"
            /\ alerts' = alerts]_vars

\* the entries of a window that do not exceed the limit, in their order
NotLater(window, limit) ==
  LET Keep(t) == t <= limit
  IN SelectSeq(window, Keep)

\* C35: the window an event leaves in the state row of an alert with
\* criteria.period is the old window with the event appended, without the
\* entries later than now + period and with all other entries in their order
C35_NormalizeDropsEveryLaterEntry ==
  [][\A a \in Ids :
       (/\ Evaluated(a) /\ IsPeriodAlert(a)
        /\ ~states[a].active /\ ~states[a].full_object.is_none
        /\ ~states'[a].full_object.is_none)
         => states'[a].full_object.events
              = NotLater(Append(states[a].full_object.events, now),
                         now + _string2datetime(alerts[a].criteria.period).seconds)]_vars

\* the length of the window of a state row, 0 for full_object = None
WindowLen(state) == IF state.full_object.is_none THEN 0 ELSE Len(state.full_object.events)

\* C36: with a clock that does not go back, no entry of the window of an
\* alert with criteria.period is later than now, and count is the length of
\* the window; a matching event for the inactive alert appends its timestamp
\* and evicts nothing, so count grows by one per event since the last reset,
\* and the alert fires exactly on the event that makes count = criteria.count
C36_WindowNeverEvicts ==
  /\ [](\A a \in DOMAIN alerts :
          alerts[a].criteria.has_period
            => /\ states[a].count = WindowLen(states[a])
               /\ \A i \in 1..WindowLen(states[a]) : states[a].full_object.events[i] <= now)
  /\ [][\A a \in Ids :
          (Evaluated(a) /\ IsPeriodAlert(a) /\ ~states[a].active)
            => LET window == IF states[a].full_object.is_none THEN <<>>
                             ELSE states[a].full_object.events
                   fires == Len(window) + 1 = alerts[a].criteria.count
               IN /\ (last'.pushed = <<a>>) = fires
                  /\ (~fires \/ alerts[a].reset_policy = "manual")
                       => /\ states'[a].full_object = Obj(Append(window, now))
                          /\ states'[a].count = states[a].count + 1
                  /\ (fires /\ alerts[a].reset_policy = "auto")
                       => states'[a] = FreshState]_vars

\* C36 witness: an alert with criteria.count = 2 and period "1s" fired on its
\* second event, two seconds after the first
C36_Witness ==
  \E a \in DOMAIN alerts :
    /\ alerts[a].criteria = PeriodCriteria(2, P_1s)
    /\ last.op = "process_event" /\ last.pushed = <<a>>
    /\ states[a].active /\ states[a].count = 2
    /\ states[a].full_object = Obj(<<0, 2>>)

\* C37: for an alert with criteria.count = N >= 1 the state row has
\* count < N while inactive and count >= N while active; the inactive row of
\* an alert with no criteria has count = 0; the row of an alert without
\* criteria.period has full_object = None
C37_CountAgreesWithActive ==
  \A a \in DOMAIN alerts :
    /\ (~alerts[a].criteria.is_none /\ alerts[a].criteria.count >= 1)
         => /\ ~states[a].active => states[a].count < alerts[a].criteria.count
            /\ states[a].active => states[a].count >= alerts[a].criteria.count
    /\ (alerts[a].criteria.is_none /\ ~states[a].active) => states[a].count = 0
    /\ ~alerts[a].criteria.has_period => states[a].full_object = NoObj

\* C37 witness: an alert with criteria.count = 2 and no period counted one
\* event and did not fire
C37_Witness ==
  \E a \in DOMAIN alerts :
    /\ alerts[a].criteria = CountCriteria(2)
    /\ last.op = "process_event" /\ last.routed = <<a>> /\ last.pushed = <<>>
    /\ ~states[a].active /\ states[a].count = 1 /\ states[a].full_object = NoObj

\* C38: a delete_alert or store_alert call made with project P for an alert
\* of another project Q leaves every bucket (P, k) and every alert row of P
\* as it was, and when it removes the alert from the store no bucket of Q
\* lists the alert's id afterwards
C38_ForeignProjectCallIsContained ==
  [][\A a \in Ids :
       (/\ a \in DOMAIN alerts
        /\ last'.op \in {"delete_alert", "store_alert"}
        /\ last'.id = a
        /\ last'.project # alerts[a].project)
         => /\ \A k \in Kinds :
                 /\ (<<last'.project, k>> \in DOMAIN cache)
                      = (<<last'.project, k>> \in DOMAIN cache')
                 /\ <<last'.project, k>> \in DOMAIN cache
                      => cache'[<<last'.project, k>>] = cache[<<last'.project, k>>]
            /\ \A b \in DOMAIN alerts :
                 alerts[b].project = last'.project
                   => b \in DOMAIN alerts' /\ alerts'[b] = alerts[b]
            /\ a \notin DOMAIN alerts'
                 => \A k \in Kinds : ~RoutedTo(cache', alerts[a].project, k, a)]_vars

\* C39: no bucket of the router index lists an alert id more than once, so
\* the routing loop hands one event to an alert at most once
C39_NoIdTwiceInBucket ==
  /\ \A key \in DOMAIN cache : \A a \in Ids : Pushes(cache[key], a) <= 1
  /\ last.op = "process_event" => \A a \in Ids : Pushes(last.routed, a) <= 1

====
